---- MODULE Spec2Model ----
(***************************************************************************)
(* A model of the lease extractor of src/main.py: the request handler      *)
(* process_lease_file, which reads the pages of a PDF into lease_text,     *)
(* applies its regular expressions to that text and answers with either    *)
(* {"error": ...} or {"lease_details": {...}}.                             *)
(*                                                                         *)
(* Texts are TLA+ strings and are matched character by character.  The     *)
(* regular expressions of the source are written as syntax trees and       *)
(* matched by Match with the leftmost, greedy, first-alternative           *)
(* backtracking of Python's re module.                                     *)
(***************************************************************************)
EXTENDS Integers, Sequences, FiniteSets, TLC

VARIABLES
    pc,          \* the handler's position
    request,     \* the file named by request.file_path
    page_no,     \* number of pages of the PDF read so far
    lease_text,  \* the local lease_text
    found,       \* the locals of steps 2 to 7
    details,     \* the local details (an ordered dict: a sequence of items)
    response,    \* what the handler returned
    served       \* the requests and responses of the calls already answered

vars == <<pc, request, page_no, lease_text, found, details, response, served>>

(***************************************************************************)
(* Characters.                                                             *)
(***************************************************************************)
Upper == {"A","B","C","D","E","F","G","H","I","J","K","L","M",
          "N","O","P","Q","R","S","T","U","V","W","X","Y","Z"}

Lower == {"a","b","c","d","e","f","g","h","i","j","k","l","m",
          "n","o","p","q","r","s","t","u","v","w","x","y","z"}

Digit == {"0","1","2","3","4","5","6","7","8","9"}

\* \s of the re module and the characters str.strip() removes
Space == {" ", "\n", "\t", "\r", "\f"}

ToLower ==
    ("A" :> "a") @@ ("B" :> "b") @@ ("C" :> "c") @@ ("D" :> "d") @@ ("E" :> "e") @@
    ("F" :> "f") @@ ("G" :> "g") @@ ("H" :> "h") @@ ("I" :> "i") @@ ("J" :> "j") @@
    ("K" :> "k") @@ ("L" :> "l") @@ ("M" :> "m") @@ ("N" :> "n") @@ ("O" :> "o") @@
    ("P" :> "p") @@ ("Q" :> "q") @@ ("R" :> "r") @@ ("S" :> "s") @@ ("T" :> "t") @@
    ("U" :> "u") @@ ("V" :> "v") @@ ("W" :> "w") @@ ("X" :> "x") @@ ("Y" :> "y") @@
    ("Z" :> "z")

ToUpper ==
    ("a" :> "A") @@ ("b" :> "B") @@ ("c" :> "C") @@ ("d" :> "D") @@ ("e" :> "E") @@
    ("f" :> "F") @@ ("g" :> "G") @@ ("h" :> "H") @@ ("i" :> "I") @@ ("j" :> "J") @@
    ("k" :> "K") @@ ("l" :> "L") @@ ("m" :> "M") @@ ("n" :> "N") @@ ("o" :> "O") @@
    ("p" :> "P") @@ ("q" :> "Q") @@ ("r" :> "R") @@ ("s" :> "S") @@ ("t" :> "T") @@
    ("u" :> "U") @@ ("v" :> "V") @@ ("w" :> "W") @@ ("x" :> "X") @@ ("y" :> "Y") @@
    ("z" :> "Z")

LowerChar(c) == IF c \in Upper THEN ToLower[c] ELSE c

UpperChar(c) == IF c \in Lower THEN ToUpper[c] ELSE c

\* str.lower(): every character lowered; the string is halved at each level
RECURSIVE lower(_)
lower(s) ==
    IF Len(s) = 0 THEN ""
    ELSE IF Len(s) = 1 THEN LowerChar(s)
    ELSE LET h == Len(s) \div 2
         IN lower(SubSeq(s, 1, h)) \o lower(SubSeq(s, h + 1, Len(s)))

(***************************************************************************)
(* Regular expressions: a pattern is a sequence of nodes.                  *)
(***************************************************************************)
Lit(s) == [k |-> "lit", s |-> s]                     \* literal characters

In(S) == [k |-> "in", s |-> S]                       \* [...] and \d, \s

NotIn(S) == [k |-> "notin", s |-> S]                 \* [^...], and . as [^\n]

Rep(r, lo, hi) == [k |-> "rep", r |-> r, lo |-> lo, hi |-> hi]   \* r{lo,hi}, r?

Star(r) == [k |-> "star", r |-> r]                   \* r*

Plus(r) == r \o <<Star(r)>>                          \* r+

Alt(a) == [k |-> "alt", a |-> a]                     \* a1|a2|...

Open == [k |-> "open"]                               \* ( of group 1

Close == [k |-> "close"]                             \* ) of group 1

Dot == NotIn({"\n"})

\* one character against a literal or a class, under re.IGNORECASE when ic
CharIs(c, d, ic) == c = d \/ (ic /\ LowerChar(c) = LowerChar(d))

CharIn(c, S, ic) == c \in S \/ (ic /\ (LowerChar(c) \in S \/ UpperChar(c) \in S))

\* the characters of a against the literal b
StrIs(a, b, ic) == a = b \/ (ic /\ lower(a) = lower(b))

\* whether the character at i is one the class node n accepts
Accepts(n, t, i, ic) ==
    /\ i <= Len(t)
    /\ IF n.k = "in" THEN CharIn(SubSeq(t, i, i), n.s, ic) ELSE ~CharIn(SubSeq(t, i, i), n.s, ic)

IsClass(r) == Len(r) = 1 /\ r[1].k \in {"in", "notin"}

Max0(n) == IF n > 0 THEN n ELSE 0

\* the least j in lo..hi such that n rejects the character at i + j, hi + 1 when there
\* is none; lo..hi is scanned in order and halved at each level
RECURSIVE RunIn(_, _, _, _, _, _)
RunIn(n, t, i, ic, lo, hi) ==
    IF lo > hi THEN lo
    ELSE IF lo = hi THEN (IF ~Accepts(n, t, i + lo, ic) THEN lo ELSE lo + 1)
    ELSE LET mid == (lo + hi) \div 2
             x == RunIn(n, t, i, ic, lo, mid)
         IN IF x <= mid THEN x ELSE RunIn(n, t, i, ic, mid + 1, hi)

\* the length of the longest run of at most limit characters from i on that n accepts
Run(n, t, i, ic, limit) == RunIn(n, t, i, ic, 0, limit - 1)

(***************************************************************************)
(* Match(ns, t, i, ic, cs, ce): the nodes ns matched against t from        *)
(* position i on; <<>> when they do not match, else <<end, cs, ce>> with   *)
(* group 1 spanning cs..ce-1.  Alternatives and repetitions are tried in   *)
(* the order of a backtracking matcher: greedy, leftmost alternative first.*)
(* A repeated character class takes the longest run of characters that the *)
(* rest of the pattern can follow, which is where giving back one          *)
(* character at a time arrives.                                            *)
(***************************************************************************)
RECURSIVE Match(_, _, _, _, _, _)
RECURSIVE MatchAlt(_, _, _, _, _, _, _, _)
RECURSIVE MatchRun(_, _, _, _, _, _, _, _)
Match(ns, t, i, ic, cs, ce) ==
    IF Len(ns) = 0 THEN <<i, cs, ce>>
    ELSE
      LET n == Head(ns)
          rest == Tail(ns)
      IN CASE n.k = "lit" ->
                IF /\ i + Len(n.s) - 1 <= Len(t)
                   /\ CharIs(SubSeq(t, i, i), SubSeq(n.s, 1, 1), ic)
                   /\ StrIs(SubSeq(t, i, i + Len(n.s) - 1), n.s, ic)
                THEN Match(rest, t, i + Len(n.s), ic, cs, ce)
                ELSE <<>>
           [] n.k \in {"in", "notin"} ->
                IF Accepts(n, t, i, ic) THEN Match(rest, t, i + 1, ic, cs, ce) ELSE <<>>
           [] n.k = "rep" /\ IsClass(n.r) ->
                MatchRun(n.lo, Run(n.r[1], t, i, ic, n.hi), rest, t, i, ic, cs, ce)
           [] n.k = "star" /\ IsClass(n.r) ->
                MatchRun(0, Run(n.r[1], t, i, ic, Len(t) + 1 - i), rest, t, i, ic, cs, ce)
           [] n.k = "rep" /\ ~IsClass(n.r) ->
                LET more == IF n.hi > 0
                            THEN Match(n.r \o <<Rep(n.r, Max0(n.lo - 1), n.hi - 1)>> \o rest,
                                       t, i, ic, cs, ce)
                            ELSE <<>>
                IN IF more # <<>> THEN more
                   ELSE IF n.lo = 0 THEN Match(rest, t, i, ic, cs, ce)
                   ELSE <<>>
           [] n.k = "star" /\ ~IsClass(n.r) ->
                LET more == Match(n.r \o <<n>> \o rest, t, i, ic, cs, ce)
                IN IF more # <<>> THEN more ELSE Match(rest, t, i, ic, cs, ce)
           [] n.k = "alt" -> MatchAlt(n.a, 1, rest, t, i, ic, cs, ce)
           [] n.k = "open" -> Match(rest, t, i, ic, i, ce)
           [] n.k = "close" -> Match(rest, t, i, ic, cs, i)

MatchAlt(a, j, rest, t, i, ic, cs, ce) ==
    IF j > Len(a) THEN <<>>
    ELSE LET m == Match(a[j] \o rest, t, i, ic, cs, ce)
         IN IF m # <<>> THEN m ELSE MatchAlt(a, j + 1, rest, t, i, ic, cs, ce)

\* a class repeated c times for the greatest c in lo..hi that rest can follow: the
\* counts are tried from hi down, the range halved at each level
MatchRun(lo, hi, rest, t, i, ic, cs, ce) ==
    IF lo > hi THEN <<>>
    ELSE IF lo = hi THEN Match(rest, t, i + lo, ic, cs, ce)
    ELSE LET mid == (lo + hi + 1) \div 2
             m == MatchRun(mid, hi, rest, t, i, ic, cs, ce)
         IN IF m # <<>> THEN m ELSE MatchRun(lo, mid - 1, rest, t, i, ic, cs, ce)

(***************************************************************************)
(* re.search(pattern, text[, re.IGNORECASE]): the match at the leftmost    *)
(* start position, <<>> for None.  group(1) of a match.                    *)
(***************************************************************************)
\* the match at the least start position in lo..hi (the range is halved at each level)
RECURSIVE SearchIn(_, _, _, _, _)
SearchIn(p, t, lo, hi, ic) ==
    IF lo = hi THEN Match(p, t, lo, ic, 0, 0)
    ELSE LET mid == (lo + hi) \div 2
             m == SearchIn(p, t, lo, mid, ic)
         IN IF m # <<>> THEN m ELSE SearchIn(p, t, mid + 1, hi, ic)

\* whether lit occurs in t
Occurs(lit, t, ic) ==
    \E i \in 1..(Len(t) - Len(lit) + 1) :
        /\ CharIs(SubSeq(t, i, i), SubSeq(lit, 1, 1), ic)
        /\ StrIs(SubSeq(t, i, i + Len(lit) - 1), lit, ic)

\* a necessary condition for p to match somewhere in t: every literal p requires
\* outside a repetition occurs in t, and so do those of one alternative of each
\* alternation
RECURSIVE CanMatch(_, _, _)
CanMatch(p, t, ic) ==
    \A j \in DOMAIN p :
        CASE p[j].k = "lit" -> Occurs(p[j].s, t, ic)
          [] p[j].k = "alt" -> \E a \in DOMAIN p[j].a : CanMatch(p[j].a[a], t, ic)
          [] OTHER -> TRUE

\* a text that cannot match is not searched
re_search(p, t, ic) ==
    IF CanMatch(p, t, ic) THEN SearchIn(p, t, 1, Len(t) + 1, ic) ELSE <<>>

group1(t, m) == SubSeq(t, m[2], m[3] - 1)

(***************************************************************************)
(* The patterns of process_lease_file.                                     *)
(***************************************************************************)
Ws == In(Space)                                      \* \s

\* \$\s?([\d,]+(?:\.\d{2})?)
Amount ==
    <<Lit("$"), Rep(<<Ws>>, 0, 1), Open>> \o Plus(<<In(Digit \cup {","})>>)
    \o <<Rep(<<Lit("."), Rep(<<In(Digit)>>, 2, 2)>>, 0, 1), Close>>

\* [^$]{0,n}
Gap(n) == Rep(<<NotIn({"$"})>>, 0, n)

RentPatterns ==
    << <<Lit("base"), Star(<<Ws>>), Lit("rent"), Gap(20)>> \o Amount,
       <<Lit("monthly"), Star(<<Ws>>), Lit("rent"), Gap(20)>> \o Amount,
       <<Lit("rent"), Star(<<Ws>>), Lit("amount"), Gap(20)>> \o Amount >>

DepositPatterns ==
    << <<Lit("security"), Star(<<Ws>>), Lit("deposit"), Gap(30)>> \o Amount >>

PetFeePatterns ==
    << <<Lit("pet"), Star(<<Ws>>),
         Alt(<< <<Lit("fee")>>, <<Lit("deposit")>>, <<Lit("charge")>> >>),
         Gap(20)>> \o Amount >>

\* no pets|pets?.*not permitted
NoPetsPattern ==
    << Alt(<< <<Lit("no pets")>>,
              <<Lit("pet"), Rep(<<Lit("s")>>, 0, 1), Star(<<Dot>>), Lit("not permitted")>> >>) >>

\* ([A-Za-z]+\s*\d{1,2},?\s*\d{4})
DateGroup ==
    <<Open>> \o Plus(<<In(Upper \cup Lower)>>)
    \o <<Star(<<Ws>>), Rep(<<In(Digit)>>, 1, 2), Rep(<<Lit(",")>>, 0, 1), Star(<<Ws>>),
         Rep(<<In(Digit)>>, 4, 4), Close>>

StartPattern ==
    <<Alt(<< <<Lit("begin")>>, <<Lit("effective")>>, <<Lit("from")>> >>)>>
    \o Plus(<<Ws>>) \o <<Lit("on")>> \o Plus(<<Ws>>) \o DateGroup

EndPattern ==
    <<Alt(<< <<Lit("end")>>, <<Lit("until")>>, <<Lit("to")>> >>)>>
    \o Plus(<<Ws>>) \o <<Lit("on")>> \o Plus(<<Ws>>) \o DateGroup

\* [A-Z][a-z]+
Word == <<In(Upper)>> \o Plus(<<In(Lower)>>)

\* [A-Z][a-z]+(?:\s[A-Z][a-z]+){1,3}
FullName == Word \o <<Rep(<<Ws>> \o Word, 1, 3)>>

LandlordPatterns ==
    << <<Open>> \o FullName \o <<Close, Star(<<Ws>>), Lit("(Landlord)")>>,
       <<Lit("Landlord")>> \o Plus(<<In({":", "-"} \cup Space)>>)
       \o <<Open>> \o FullName \o <<Close>> >>

\* [A-Z][a-z]+(?:\s[A-Z][a-z]+)?
OneOrTwoWords == Word \o <<Rep(<<Ws>> \o Word, 0, 1)>>

TenantPattern ==
    <<Open>> \o OneOrTwoWords
    \o <<Star(<<Star(<<Ws>>), Alt(<< <<Lit("and")>>, <<Lit(",")>> >>), Star(<<Ws>>)>>
              \o OneOrTwoWords),
         Close, Star(<<Ws>>), Lit("("), Star(<<Dot>>), Lit("Tenant")>>

\* [A-Za-z\s]+
Words == Plus(<<In(Upper \cup Lower \cup Space)>>)

\* ,\s*(?:TX|Texas)\s*\d{5}
StateZip ==
    <<Lit(","), Star(<<Ws>>), Alt(<< <<Lit("TX")>>, <<Lit("Texas")>> >>), Star(<<Ws>>),
      Rep(<<In(Digit)>>, 5, 5)>>

\* \d{3,6}\s+
StreetNo == <<Rep(<<In(Digit)>>, 3, 6)>> \o Plus(<<Ws>>)

AddressPatternFor ==
    <<Lit("for")>> \o Plus(<<Ws>>) \o <<Open>> \o StreetNo \o Words
    \o <<Lit(","), Star(<<Ws>>)>> \o Words \o StateZip \o <<Close>>

AddressPatternStreet ==
    <<Open>> \o StreetNo \o Words
    \o <<Alt(<< <<Lit("Dr")>>, <<Lit("Street")>>, <<Lit("Ave")>>, <<Lit("Road")>>,
                <<Lit("Ln")>>, <<Lit("Ct")>> >>)>>
    \o Plus(<<In(Space \cup {","})>>) \o Words \o StateZip \o <<Close>>

LateFeePatterns ==
    << <<Lit("late"), Star(<<Ws>>), Lit("fee"), Gap(20)>> \o Amount >>

NsfFeePatterns ==
    << <<Lit("insufficient"), Star(<<Ws>>), Lit("funds"), Star(<<Ws>>), Lit("fee"), Gap(20)>>
       \o Amount,
       <<Lit("nsf"), Star(<<Ws>>), Lit("fee"), Gap(20)>> \o Amount >>

\* not required to maintain renter.?s insurance
InsurancePattern ==
    <<Lit("not required to maintain renter"), Rep(<<Dot>>, 0, 1), Lit("s insurance")>>

\* evict|eviction|default|termination notice
EvictionPattern ==
    << Alt(<< <<Lit("evict")>>, <<Lit("eviction")>>, <<Lit("default")>>,
              <<Lit("termination notice")>> >>) >>

(***************************************************************************)
(* Optional strings: <<>> is None, <<s>> the string s.                     *)
(***************************************************************************)
None == <<>>

Some(s) == <<s>>

\* bool(v) of an optional string
Truthy(v) == v # None /\ v[1] # ""

\* match_any returning the capture of the last rule that matches
RECURSIVE match_last_from(_, _, _)
match_last_from(patterns, j, text) ==
    IF j < 1 THEN None
    ELSE LET m == re_search(patterns[j], text, TRUE)
         IN IF m # <<>> THEN Some(group1(text, m)) ELSE match_last_from(patterns, j - 1, text)

match_any_last(patterns, text) == match_last_from(patterns, Len(patterns), text)

\* match_any(patterns, text)
RECURSIVE match_from(_, _, _)
match_from(patterns, j, text) ==
    IF j > Len(patterns) THEN None
    ELSE LET m == re_search(patterns[j], text, TRUE)
         IN IF m # <<>> THEN Some(group1(text, m)) ELSE match_from(patterns, j + 1, text)

match_any(patterns, text) == match_from(patterns, 1, text)

(***************************************************************************)
(* Python values of the record: strings and booleans.                      *)
(***************************************************************************)
Str(s) == [t |-> "str", v |-> s]

Bool(b) == [t |-> "bool", v |-> b]

Item(k, v) == [k |-> k, v |-> v]

NewlineToSpace(c) == IF c = "\n" THEN " " ELSE c

\* v.replace("\n", " "); the string is halved at each level
RECURSIVE replace_newlines(_)
replace_newlines(s) ==
    IF Len(s) = 0 THEN ""
    ELSE IF Len(s) = 1 THEN NewlineToSpace(s)
    ELSE LET h == Len(s) \div 2
         IN replace_newlines(SubSeq(s, 1, h)) \o replace_newlines(SubSeq(s, h + 1, Len(s)))

\* the least position in lo..hi of a character of s that is not whitespace, hi + 1
\* when there is none
RECURSIVE lstrip_at(_, _, _)
lstrip_at(s, lo, hi) ==
    IF lo > hi THEN lo
    ELSE IF lo = hi THEN (IF SubSeq(s, lo, lo) \notin Space THEN lo ELSE lo + 1)
    ELSE LET mid == (lo + hi) \div 2
             x == lstrip_at(s, lo, mid)
         IN IF x <= mid THEN x ELSE lstrip_at(s, mid + 1, hi)

\* the greatest position in lo..hi of a character of s that is not whitespace, lo - 1
\* when there is none
RECURSIVE rstrip_at(_, _, _)
rstrip_at(s, lo, hi) ==
    IF lo > hi THEN hi
    ELSE IF lo = hi THEN (IF SubSeq(s, lo, lo) \notin Space THEN lo ELSE lo - 1)
    ELSE LET mid == (lo + hi) \div 2
             x == rstrip_at(s, mid + 1, hi)
         IN IF x > mid THEN x ELSE rstrip_at(s, lo, mid)

\* str.strip(): from the first to the last character that is not whitespace
strip(s) == SubSeq(s, lstrip_at(s, 1, Len(s)), rstrip_at(s, 1, Len(s)))

\* text[:n]
Slice(text, n) == SubSeq(text, 1, IF Len(text) < n THEN Len(text) ELSE n)

\* needle in text
Contains(text, needle) ==
    \E i \in 1..(Len(text) - Len(needle) + 1) : SubSeq(text, i, i + Len(needle) - 1) = needle

(***************************************************************************)
(* Steps 2 to 7 of process_lease_file, as functions of lease_text.         *)
(***************************************************************************)
NotFound == "Not found"

PreviewLen == 400

rent(text) == match_any(RentPatterns, text)

DepositOverride(text) == Contains(lower(text), "not required to pay a security deposit")

\* deposit with the override applied only when nothing was captured
deposit_capture_wins(text) ==
    LET captured == match_any(DepositPatterns, text)
    IN IF Truthy(captured) THEN captured
       ELSE IF DepositOverride(text) THEN Some("0.00") ELSE captured

deposit(text) ==
    LET captured == match_any(DepositPatterns, text)
    IN IF DepositOverride(text) THEN Some("0.00") ELSE captured

PetOverride(text) == re_search(NoPetsPattern, text, TRUE) # <<>>

pet_fee(text) ==
    LET captured == match_any(PetFeePatterns, text)
    IN IF PetOverride(text) THEN Some("Not applicable") ELSE captured

start_pattern(text) == re_search(StartPattern, text, TRUE)

end_pattern(text) == re_search(EndPattern, text, TRUE)

landlord(text) == match_any(LandlordPatterns, text)

tenant(text) ==
    LET tenant_block == re_search(TenantPattern, text, FALSE)
    IN IF tenant_block # <<>> THEN group1(text, tenant_block) ELSE NotFound

address(text) ==
    LET first == re_search(AddressPatternFor, text, FALSE)
        address_match == IF first = <<>> THEN re_search(AddressPatternStreet, text, FALSE)
                         ELSE first
    IN IF address_match # <<>> THEN group1(text, address_match) ELSE NotFound

late_fee(text) == match_any(LateFeePatterns, text)

nsf_fee(text) == match_any(NsfFeePatterns, text)

\* insurance_required without the negation
insurance_required_unnegated(text) == re_search(InsurancePattern, text, TRUE) # <<>>

insurance_required(text) == ~(re_search(InsurancePattern, text, TRUE) # <<>>)

eviction_clause(text) == re_search(EvictionPattern, text, TRUE) # <<>>

\* sum([...]) of step 7: the number of true flags
Count(flags) == Cardinality({i \in DOMAIN flags : flags[i]})

\* the flags with the pet fee counted as a fifth field
ConfidenceFlagsWithPetFee(f) ==
    <<Truthy(f.rent), Truthy(f.deposit), Truthy(f.pet_fee), f.start_pattern # <<>>,
      f.end_pattern # <<>> >>

\* the flags whose sum / 4 is the confidence
ConfidenceFlags(f) ==
    <<Truthy(f.rent), Truthy(f.deposit), f.start_pattern # <<>>, f.end_pattern # <<>> >>

\* f"{confidence * 100:.0f}%" for confidence = num / den
Percent(num, den) == ToString((2 * 100 * num + den) \div (2 * den)) \o "%"

\* the currency string with a zero amount in place of the sentinel
MoneyZeroDefault(v) == "$" \o (IF Truthy(v) THEN v[1] ELSE "0.00")

\* f"${v}" if v else "Not found"
Money(v) == IF Truthy(v) THEN "$" \o v[1] ELSE NotFound

\* the locals of steps 2 to 7
Locals(text) ==
    LET f == [rent |-> rent(text), deposit |-> deposit(text), pet_fee |-> pet_fee(text),
              start_pattern |-> start_pattern(text), end_pattern |-> end_pattern(text),
              landlord |-> landlord(text), tenant |-> tenant(text), address |-> address(text),
              late_fee |-> late_fee(text), nsf_fee |-> nsf_fee(text),
              insurance_required |-> insurance_required(text),
              eviction_clause |-> eviction_clause(text)]
    IN f @@ [confidence |-> [num |-> Count(ConfidenceFlags(f)), den |-> 4]]

\* step 8: the dict details, in insertion order
BuildDetails(f, text) ==
    << Item("Property Address", Str(IF f.address # "" THEN f.address ELSE NotFound)),
       Item("Landlord Name", Str(IF Truthy(f.landlord) THEN f.landlord[1] ELSE NotFound)),
       Item("Tenant Name(s)", Str(IF f.tenant # "" THEN f.tenant ELSE NotFound)),
       Item("Rent Amount", Str(Money(f.rent))),
       Item("Security Deposit", Str(Money(f.deposit))),
       Item("Pet Fee", Str(Money(f.pet_fee))),
       Item("Lease Start Date",
            Str(IF f.start_pattern # <<>> THEN group1(text, f.start_pattern) ELSE NotFound)),
       Item("Lease End Date",
            Str(IF f.end_pattern # <<>> THEN group1(text, f.end_pattern) ELSE NotFound)),
       Item("Late Fee", Str(Money(f.late_fee))),
       Item("NSF Fee", Str(Money(f.nsf_fee))),
       Item("Insurance Required", Bool(f.insurance_required)),
       Item("Eviction Clause Present", Bool(f.eviction_clause)),
       Item("Extraction Confidence", Str(Percent(f.confidence.num, f.confidence.den))),
       Item("Lease Text Preview", Str(Slice(text, PreviewLen) \o "...")) >>

\* step 9 without the replacement of line breaks
CleanStripOnly(v) == IF v.t = "str" THEN Str(strip(v.v)) ELSE v

\* step 9, for one value
Clean(v) == IF v.t = "str" THEN Str(strip(replace_newlines(v.v))) ELSE v

\* step 9 keeping the string fields only
CleanDetailsStringsOnly(d) ==
    LET IsStr(x) == x.v.t = "str"
    IN SelectSeq([i \in DOMAIN d |-> Item(d[i].k, Clean(d[i].v))], IsStr)

CleanDetails(d) == [i \in DOMAIN d |-> Item(d[i].k, Clean(d[i].v))]

(***************************************************************************)
(* The environment: the PDF files a request may name.  A file is a         *)
(* sequence of page texts (what page.extract_text() returns, "" for a page *)
(* without text); fails_at = k > 0 makes pdfplumber raise when page k is   *)
(* about to be read (k = 1 covers pdfplumber.open raising).                *)
(***************************************************************************)
MaxPages == 2

MaxCalls == 3

PartiesPage ==
    "Jane Doe (Landlord) and John Smith (Tenant)\nBase Rent: $1,450.00\nSecurity Deposit: $500.00\nInsufficient funds fee: $25.00"

FallbackPage == "Landlord: Mary Lee\nMonthly Rent: $900\nNSF fee $35 Late fee: $50"

\* the deposit waiver, and the insurance waiver with a line break for its apostrophe
WaiverPage ==
    "Tenant is NOT required to pay a security deposit.\nTenant is not required to maintain renter\ns insurance"

\* both dates, the first broken over two lines, and the insurance waiver
TermPage ==
    "Lease shall begin on January\n1, 2025 and end on December 31, 2025\nTenant is not required to maintain renter's insurance"

PetsPage == "No pets allowed. Pet deposit: $250.00"

BlankPage == ""

RuledPage == " " \o "....................................................................................................................................................................................................................................................................................................................................................................................................."

Pages ==
    {PartiesPage, FallbackPage, WaiverPage, TermPage, PetsPage, BlankPage, RuledPage}

Seqs(S, n) == UNION {[1..k -> S] : k \in 0..n}

Max1(n) == IF n > 1 THEN n ELSE 1

ReadError == "No /Root object! - Is this really a PDF?"

NoFile == [isfile |-> FALSE, pages |-> <<>>, fails_at |-> 0]

Pdf(ps) == [isfile |-> TRUE, pages |-> ps, fails_at |-> 0]

BrokenPdf(ps, k) == [isfile |-> TRUE, pages |-> ps, fails_at |-> k]

Files ==
    {NoFile}
    \cup {Pdf(ps) : ps \in Seqs(Pages, MaxPages)}
    \cup UNION {{BrokenPdf(ps, k) : k \in 1..Max1(Len(ps))} : ps \in Seqs(Pages, MaxPages)}

\* the files named by the requests of a server that answers several calls
CallFiles ==
    {NoFile, Pdf(<<PartiesPage>>), Pdf(<<BlankPage, PartiesPage>>), Pdf(<<WaiverPage>>),
     BrokenPdf(<<PartiesPage>>, 1)}

(***************************************************************************)
(* The handler.                                                            *)
(***************************************************************************)
NoValue == <<>>

\* lease_text kept from the call before
StaleLeaseText == lease_text

\* lease_text = ""
FreshLeaseText == ""

\* lease_text += text + "\n"
Accumulate(acc, text) == IF text # "" THEN acc \o text \o "\n" ELSE acc

ErrorResponse(msg) == [error |-> msg]

DetailsResponse(d) == [lease_details |-> d]

TypeOK ==
    /\ pc \in {"idle", "read", "build", "clean", "done"}
    /\ page_no \in 0..(MaxPages + 1)

Init ==
    /\ pc = "idle"
    /\ request = NoValue
    /\ page_no = 0
    /\ lease_text = ""
    /\ found = NoValue
    /\ details = NoValue
    /\ response = NoValue
    /\ served = <<>>

\* lines 33-36: the path is not a file
NotAFile(f) ==
    /\ ~f.isfile
    /\ request' = f
    /\ response' = ErrorResponse("PDF file not found at the given path.")
    /\ pc' = "done"
    /\ UNCHANGED <<page_no, lease_text, found, details, served>>

\* lines 33-41: the path is a file; reading starts
StartReading(f) ==
    /\ f.isfile
    /\ request' = f
    /\ lease_text' = FreshLeaseText
    /\ page_no' = 0
    /\ pc' = "read"
    /\ UNCHANGED <<found, details, response, served>>

\* lines 41-45: one iteration of the loop over pdf.pages
ReadPage ==
    /\ pc = "read"
    /\ request.fails_at # page_no + 1
    /\ page_no < Len(request.pages)
    /\ lease_text' = Accumulate(lease_text, request.pages[page_no + 1])
    /\ page_no' = page_no + 1
    /\ UNCHANGED <<pc, request, found, details, response, served>>

\* lines 46-47: pdfplumber raised
ReadFails ==
    /\ pc = "read"
    /\ request.fails_at = page_no + 1
    /\ response' = ErrorResponse("Failed to read PDF: " \o ReadError)
    /\ pc' = "done"
    /\ UNCHANGED <<request, page_no, lease_text, found, details, served>>

\* lines 60-136: steps 2 to 7, once every page is read
Extract ==
    /\ pc = "read"
    /\ request.fails_at # page_no + 1
    /\ page_no = Len(request.pages)
    /\ found' = Locals(lease_text)
    /\ pc' = "build"
    /\ UNCHANGED <<request, page_no, lease_text, details, response, served>>

\* lines 138-154: step 8
Build ==
    /\ pc = "build"
    /\ details' = BuildDetails(found, lease_text)
    /\ pc' = "clean"
    /\ UNCHANGED <<request, page_no, lease_text, found, response, served>>

\* lines 156-161: step 9 and the return
Return ==
    /\ pc = "clean"
    /\ details' = CleanDetails(details)
    /\ response' = DetailsResponse(details')
    /\ pc' = "done"
    /\ UNCHANGED <<request, page_no, lease_text, found, served>>

\* the next request arrives: the answered call is over, its frame is gone
NextCall ==
    /\ pc = "done"
    /\ Len(served) + 1 < MaxCalls
    /\ served' = Append(served, [request |-> request, response |-> response])
    /\ pc' = "idle"
    /\ found' = NoValue
    /\ details' = NoValue
    /\ response' = NoValue
    /\ UNCHANGED <<request, page_no, lease_text>>

\* the handler, called with a path that names one of the files of disk
Handle(disk) ==
    \/ pc = "idle" /\ \E f \in disk : NotAFile(f)
    \/ pc = "idle" /\ \E f \in disk : StartReading(f)
    \/ ReadPage
    \/ ReadFails
    \/ Extract
    \/ Build
    \/ Return

\* one call of the handler
Next == Handle(Files)

Spec == Init /\ [][Next]_vars

\* a server answering up to MaxCalls calls one after the other
NextCalls == Handle(CallFiles) \/ NextCall

SpecCalls == Init /\ [][NextCalls]_vars

(***************************************************************************)
(* What the properties below speak of.                                     *)
(***************************************************************************)
FieldNames ==
    <<"Property Address", "Landlord Name", "Tenant Name(s)", "Rent Amount",
      "Security Deposit", "Pet Fee", "Lease Start Date", "Lease End Date", "Late Fee",
      "NSF Fee", "Insurance Required", "Eviction Clause Present", "Extraction Confidence",
      "Lease Text Preview">>

BooleanFields == {"Insurance Required", "Eviction Clause Present"}

\* the handler has returned
Done == pc = "done"

\* the handler has returned a lease record
Answered == Done /\ "lease_details" \in DOMAIN response

\* the value of field k of record d
ValueIn(d, k) == d[CHOOSE i \in DOMAIN d : d[i].k = k].v.v

\* the value of field k of the returned record
Field(k) == ValueIn(response.lease_details, k)

\* lit occurs in text at position i, whatever the case of the letters
At(text, i, lit) ==
    /\ i >= 1
    /\ i + Len(lit) - 1 <= Len(text)
    /\ LowerChar(SubSeq(text, i, i)) = LowerChar(SubSeq(lit, 1, 1))
    /\ lower(SubSeq(text, i, i + Len(lit) - 1)) = lower(lit)

Has(text, lit) == \E i \in 1..Len(text) : At(text, i, lit)

HasDepositWaiver(text) == Has(text, "not required to pay a security deposit")

\* "no pets", or "pets" followed later by "not permitted"
PetsForbidden(text) ==
    \/ Has(text, "no pets")
    \/ \E i, j \in 1..Len(text) : i + 4 <= j /\ At(text, i, "pets") /\ At(text, j, "not permitted")

HasDollar(text) == \E i \in 1..Len(text) : SubSeq(text, i, i) = "$"

\* the insurance phrase, the apostrophe absent or replaced by one character not in Excluded
HasInsuranceWaiver(text, Excluded) ==
    \E i \in 1..Len(text) :
        /\ At(text, i, "not required to maintain renter")
        /\ \/ At(text, i + 31, "s insurance")
           \/ /\ At(text, i + 32, "s insurance")
              /\ SubSeq(text, i + 31, i + 31) \notin Excluded

\* the chain of patterns of a field matched nothing
Unmatched(text) ==
    [k \in {"Property Address", "Landlord Name", "Tenant Name(s)", "Rent Amount",
            "Security Deposit", "Pet Fee", "Lease Start Date", "Lease End Date",
            "Late Fee", "NSF Fee"} |->
        CASE k = "Property Address" ->
               /\ re_search(AddressPatternFor, text, FALSE) = <<>>
               /\ re_search(AddressPatternStreet, text, FALSE) = <<>>
          [] k = "Landlord Name" ->
               \A j \in DOMAIN LandlordPatterns : re_search(LandlordPatterns[j], text, TRUE) = <<>>
          [] k = "Tenant Name(s)" -> re_search(TenantPattern, text, FALSE) = <<>>
          [] k = "Rent Amount" ->
               \A j \in DOMAIN RentPatterns : re_search(RentPatterns[j], text, TRUE) = <<>>
          [] k = "Security Deposit" -> re_search(DepositPatterns[1], text, TRUE) = <<>>
          [] k = "Pet Fee" -> re_search(PetFeePatterns[1], text, TRUE) = <<>>
          [] k = "Lease Start Date" -> re_search(StartPattern, text, TRUE) = <<>>
          [] k = "Lease End Date" -> re_search(EndPattern, text, TRUE) = <<>>
          [] k = "Late Fee" -> re_search(LateFeePatterns[1], text, TRUE) = <<>>
          [] k = "NSF Fee" ->
               \A j \in DOMAIN NsfFeePatterns : re_search(NsfFeePatterns[j], text, TRUE) = <<>>]

\* the override rule of a field fired
Overridden(text) ==
    [k \in DOMAIN Unmatched(text) |->
        CASE k = "Security Deposit" -> DepositOverride(text)
          [] k = "Pet Fee" -> PetOverride(text)
          [] OTHER -> FALSE]

\* the record has the fourteen fields, in order, each with a value of its type
FixedShape(d) ==
    /\ [i \in DOMAIN d |-> d[i].k] = FieldNames
    /\ \A i \in DOMAIN d :
          IF d[i].k \in BooleanFields
          THEN d[i].v.t = "bool" /\ d[i].v.v \in BOOLEAN
          ELSE d[i].v.t = "str" /\ d[i].v.v # ""

\* extraction ran to its end: the file was there and could be read
Extracted == Done /\ request.isfile /\ request.fails_at = 0

StartsWithDollar(v) == SubSeq(v, 1, 1) = "$"

\* the capture of the lowest-indexed pattern of the chain that matches, None if none does
LowestRule(patterns, text) ==
    LET found_by == [j \in DOMAIN patterns |-> re_search(patterns[j], text, TRUE)]
        matching == {j \in DOMAIN patterns : found_by[j] # <<>>}
        first == CHOOSE j \in matching : \A i \in matching : j <= i
    IN IF matching = {} THEN None
       ELSE Some(group1(text, found_by[first]))

\* the text a file decodes to: its pages with text, a line break after each
RECURSIVE TextOf(_)
TextOf(ps) ==
    IF ps = <<>> THEN ""
    ELSE (IF Head(ps) = "" THEN "" ELSE Head(ps) \o "\n") \o TextOf(Tail(ps))

\* the calls answered so far, the one just answered included
Calls == IF Done THEN Append(served, [request |-> request, response |-> response]) ELSE served

(***************************************************************************)
(* C1.  Deposit override precedence: whenever the text contains "not       *)
(* required to pay a security deposit", in any case, the Security Deposit  *)
(* of the returned record is "$0.00", whatever the deposit pattern         *)
(* captured.                                                               *)
(***************************************************************************)
C1_DepositOverrideWins ==
    Answered /\ HasDepositWaiver(lease_text) => Field("Security Deposit") = "$0.00"

\* the waiver next to a captured deposit of 500.00
C1_Witness ==
    /\ Answered
    /\ HasDepositWaiver(lease_text)
    /\ match_any(DepositPatterns, lease_text) = Some("500.00")
    /\ Field("Security Deposit") = "$0.00"

(***************************************************************************)
(* C2.  Pet fee override precedence: whenever the text contains "no pets", *)
(* or "pets" followed later by "not permitted", the Pet Fee of the         *)
(* returned record is exactly "Not applicable".                            *)
(***************************************************************************)
C2_PetFeeNotApplicable ==
    Answered /\ PetsForbidden(lease_text) => Field("Pet Fee") = "Not applicable"

(***************************************************************************)
(* C3.  Extraction Confidence is the number of the four fields Rent        *)
(* Amount, Security Deposit, Lease Start Date and Lease End Date whose     *)
(* value in the record is not "Not found", over four, as one of "0%",      *)
(* "25%", "50%", "75%", "100%"; a deposit set by the override counts, and  *)
(* no other field does.                                                    *)
(***************************************************************************)
CriticalFields == {"Rent Amount", "Security Deposit", "Lease Start Date", "Lease End Date"}

Quarters == [n \in 0..4 |-> CASE n = 0 -> "0%" [] n = 1 -> "25%" [] n = 2 -> "50%"
                              [] n = 3 -> "75%" [] n = 4 -> "100%"]

C3_ConfidenceIsQuartersFound ==
    Answered =>
        Field("Extraction Confidence")
            = Quarters[Cardinality({k \in CriticalFields : Field(k) # NotFound})]

\* three of four, the deposit found by the override alone
C3_Witness ==
    /\ Answered
    /\ HasDepositWaiver(lease_text)
    /\ match_any(DepositPatterns, lease_text) = None
    /\ Field("Security Deposit") = "$0.00"
    /\ Field("Extraction Confidence") = "75%"

(***************************************************************************)
(* C4.  Fixed record shape: whenever extraction runs, the record has the   *)
(* fourteen fields in their order, each with a value, and a field whose    *)
(* patterns do not match is "Not found".  As amended: ... is "Not found"   *)
(* unless the override rule of the field (deposit, pet fee) fired.         *)
(***************************************************************************)
C4_FixedShapeUnmatchedNotFound ==
    Extracted =>
        /\ DOMAIN response = {"lease_details"}
        /\ FixedShape(response.lease_details)
        /\ \A k \in DOMAIN Unmatched(lease_text) :
              Unmatched(lease_text)[k] => Field(k) = NotFound

C4_FixedShapeUnmatchedNotFoundUnlessOverridden ==
    Extracted =>
        /\ DOMAIN response = {"lease_details"}
        /\ FixedShape(response.lease_details)
        /\ \A k \in DOMAIN Unmatched(lease_text) :
              Unmatched(lease_text)[k] /\ ~Overridden(lease_text)[k] => Field(k) = NotFound

\* a text none of the patterns matches: ten sentinels in a full record
C4_Witness ==
    /\ Extracted
    /\ lease_text # ""
    /\ \A k \in DOMAIN Unmatched(lease_text) : Unmatched(lease_text)[k] /\ Field(k) = NotFound
    /\ FixedShape(response.lease_details)

(***************************************************************************)
(* C5.  Absent currency gives the sentinel: for a text with no dollar      *)
(* amount, Rent Amount, Security Deposit, Pet Fee, Late Fee and NSF Fee    *)
(* are all "Not found" and the confidence is "0%" with both dates absent   *)
(* and "50%" with both present; a financial field is a currency-prefixed   *)
(* string only when its chain captured a number, "Not found" otherwise.    *)
(* As amended: the same for a text in which neither override rule fires;   *)
(* with the deposit override the deposit is "$0.00" without a capture, and *)
(* with the pet override the pet fee is not "Not found".                   *)
(***************************************************************************)
FinancialFields == {"Rent Amount", "Security Deposit", "Pet Fee", "Late Fee", "NSF Fee"}

DatesAbsent(text) == Unmatched(text)["Lease Start Date"] /\ Unmatched(text)["Lease End Date"]

DatesPresent(text) == ~Unmatched(text)["Lease Start Date"] /\ ~Unmatched(text)["Lease End Date"]

C5_NoCurrencyNotFound ==
    Answered =>
        /\ ~HasDollar(lease_text) =>
              /\ \A k \in FinancialFields : Field(k) = NotFound
              /\ DatesAbsent(lease_text) => Field("Extraction Confidence") = "0%"
              /\ DatesPresent(lease_text) => Field("Extraction Confidence") = "50%"
        /\ \A k \in FinancialFields :
              /\ StartsWithDollar(Field(k)) => ~Unmatched(lease_text)[k]
              /\ ~StartsWithDollar(Field(k)) => Field(k) = NotFound

C5_NoCurrencyNotFoundUnlessOverridden ==
    Answered =>
        /\ ~HasDollar(lease_text) =>
              /\ \A k \in FinancialFields : ~Overridden(lease_text)[k] => Field(k) = NotFound
              /\ DepositOverride(lease_text) => Field("Security Deposit") = "$0.00"
              /\ PetOverride(lease_text) => Field("Pet Fee") # NotFound
              /\ ~DepositOverride(lease_text) =>
                    /\ DatesAbsent(lease_text) => Field("Extraction Confidence") = "0%"
                    /\ DatesPresent(lease_text) => Field("Extraction Confidence") = "50%"
        /\ \A k \in FinancialFields :
              ~Overridden(lease_text)[k] =>
                  /\ StartsWithDollar(Field(k)) => ~Unmatched(lease_text)[k]
                  /\ ~StartsWithDollar(Field(k)) => Field(k) = NotFound

\* no dollar sign, no override, both dates: five sentinels and 50%
C5_Witness ==
    /\ Answered
    /\ ~HasDollar(lease_text)
    /\ \A k \in FinancialFields : ~Overridden(lease_text)[k] /\ Field(k) = NotFound
    /\ DatesPresent(lease_text)
    /\ Field("Extraction Confidence") = "50%"

(***************************************************************************)
(* C6.  First match wins by rule priority: for the chains of rent, NSF fee *)
(* and landlord the result is the capture of the lowest-indexed pattern    *)
(* that matches anywhere in the text, wherever later patterns match, and   *)
(* "Not found" only if no pattern of the chain matches.                    *)
(***************************************************************************)
C6_LowestRuleWins ==
    Answered =>
        LET lowest_rent == LowestRule(RentPatterns, lease_text)
            lowest_nsf == LowestRule(NsfFeePatterns, lease_text)
            lowest_landlord == LowestRule(LandlordPatterns, lease_text)
        IN /\ found.rent = lowest_rent
           /\ found.nsf_fee = lowest_nsf
           /\ found.landlord = lowest_landlord
           /\ Field("Rent Amount") = (IF lowest_rent = None THEN NotFound ELSE "$" \o lowest_rent[1])
           /\ Field("NSF Fee") = (IF lowest_nsf = None THEN NotFound ELSE "$" \o lowest_nsf[1])
           /\ Field("Landlord Name") = NotFound <=> lowest_landlord = None
           /\ lowest_landlord # None =>
                 Field("Landlord Name") = strip(replace_newlines(lowest_landlord[1]))

\* "monthly rent" matches earlier in the text than "base rent", which wins
C6_Witness ==
    /\ Answered
    /\ re_search(RentPatterns[1], lease_text, TRUE) # <<>>
    /\ re_search(RentPatterns[2], lease_text, TRUE) # <<>>
    /\ re_search(RentPatterns[2], lease_text, TRUE)[1] < re_search(RentPatterns[1], lease_text, TRUE)[1]
    /\ Field("Rent Amount") = "$1,450.00"
    /\ Field("NSF Fee") = "$25.00"
    /\ Field("Landlord Name") = "Jane Doe"

(***************************************************************************)
(* C7.  Determinism and call independence: the response to a call depends  *)
(* only on the text of the file it names; two calls on the same text       *)
(* return the same record, whatever calls were answered before them.       *)
(***************************************************************************)
C7_SameTextSameRecord ==
    \A a, b \in DOMAIN Calls :
        /\ Calls[a].request.isfile /\ Calls[a].request.fails_at = 0
        /\ Calls[b].request.isfile /\ Calls[b].request.fails_at = 0
        /\ TextOf(Calls[a].request.pages) = TextOf(Calls[b].request.pages)
        => Calls[a].response = Calls[b].response

\* the same text extracted twice, from two files, another call in between
C7_Witness ==
    /\ Len(Calls) = 3
    /\ Calls[1].request # Calls[3].request
    /\ Calls[1].request.isfile /\ Calls[1].request.fails_at = 0
    /\ Calls[3].request.isfile /\ Calls[3].request.fails_at = 0
    /\ TextOf(Calls[1].request.pages) = TextOf(Calls[3].request.pages)
    /\ TextOf(Calls[2].request.pages) # TextOf(Calls[1].request.pages)
    /\ "lease_details" \in DOMAIN Calls[2].response
    /\ Calls[1].response = Calls[3].response

(***************************************************************************)
(* C8.  Insurance flag: Insurance Required is false if and only if the     *)
(* text contains "not required to maintain renter's insurance", in any     *)
(* case, the apostrophe absent or replaced by one arbitrary character.     *)
(* As amended: ... replaced by one character other than a line break.      *)
(***************************************************************************)
C8_InsuranceFlagAnyCharacter ==
    Answered => (Field("Insurance Required") = FALSE <=> HasInsuranceWaiver(lease_text, {}))

C8_InsuranceFlagNoLineBreak ==
    Answered => (Field("Insurance Required") = FALSE <=> HasInsuranceWaiver(lease_text, {"\n"}))

\* the phrase with its apostrophe
C8_Witness ==
    /\ Answered
    /\ Has(lease_text, "not required to maintain renter's insurance")
    /\ Field("Insurance Required") = FALSE

(***************************************************************************)
(* C9.  Sanitized output: no string field of the record holds a line break *)
(* or starts or ends with whitespace, the boolean fields are what step 6   *)
(* computed, and Lease Text Preview is the first 400 characters of the     *)
(* text followed by "...", sanitized the same way.                         *)
(***************************************************************************)
C9_SanitizedRecord ==
    Answered =>
        /\ \A k \in (DOMAIN Unmatched(lease_text)) \cup {"Extraction Confidence", "Lease Text Preview"} :
              LET v == Field(k)
              IN /\ \A i \in 1..Len(v) : SubSeq(v, i, i) # "\n"
                 /\ v # "" => SubSeq(v, 1, 1) \notin Space /\ SubSeq(v, Len(v), Len(v)) \notin Space
        /\ Field("Insurance Required") = found.insurance_required
        /\ Field("Eviction Clause Present") = found.eviction_clause
        /\ Field("Lease Text Preview")
              = strip(replace_newlines(
                    SubSeq(lease_text, 1, IF Len(lease_text) > 400 THEN 400 ELSE Len(lease_text))
                    \o "..."))

\* a text of more than 400 characters that starts with a blank and breaks lines in
\* its first 400, and a date captured across a line break
C9_Witness ==
    /\ Answered
    /\ Len(lease_text) > 400
    /\ SubSeq(lease_text, 1, 1) = " "
    /\ \E i \in 1..400 : SubSeq(lease_text, i, i) = "\n"
    /\ Len(Field("Lease Text Preview")) = 402
    /\ Field("Lease Start Date") = "January 1, 2025"

(***************************************************************************)
(* C10.  Input failure is surfaced before extraction: when the path is not *)
(* a file, reading raises, or the decoded text is empty, the response is a *)
(* failure and extraction does not run; no response carries both an error  *)
(* and a record, and none a record built from an empty text.               *)
(***************************************************************************)
C10_InputFailureSurfaced ==
    Done =>
        /\ DOMAIN response \in {{"error"}, {"lease_details"}}
        /\ (~request.isfile \/ request.fails_at # 0 \/ lease_text = "") =>
              /\ DOMAIN response = {"error"}
              /\ found = NoValue

====
